---------------------------- MODULE Spec2Model ----------------------------
(* Follower Snapshot Collector (follow_scraper.py): the master loop of     *)
(* main(), the pagination cycle of scrape_single_cycle(), the HTTP page    *)
(* fetch seen at its interface, and the checkpoint file.  Strings that     *)
(* reach the file are sequences of code points (10 = newline).             *)
(* Snapshot Diff (diff.py): load_usernames() and the set arithmetic of    *)
(* main(), on two given files and on the file the collector wrote.         *)
EXTENDS Integers, Sequences, FiniteSets, TLC

(* ------------------------------ bounds -------------------------------- *)
\* number of distinct usernames the upstream API can serve
MaxUsers == 2
\* longest 'users' list of one response body
MaxPageLen == 2
\* most pages of one cycle that report has_more = true
MaxPages == 2
\* most cycles of one run that the model follows
MaxCycles == 6
\* longest username of the round trip through the snapshot file
MaxNameLen == 2

(* ------------------------- program constants -------------------------- *)
EmptyCycleThreshold == 5
PageSleepMin == 4
PageSleepMax == 12
CycleSleepMin == 30
CycleSleepMax == 60

(* --------------------------- value domains ---------------------------- *)
\* the i-th username: "a", "ab", "b", "bb", "c", ...
UserName(i) ==
    IF i % 2 = 1 THEN << 97 + (i \div 2) >> ELSE << 96 + (i \div 2), 98 >>

Usernames == { UserName(i) : i \in 1..MaxUsers }

\* the 'users' lists a body can carry; duplicates within a list are allowed
UserLists == UNION { [1..n -> Usernames] : n \in 0..MaxPageLen }

\* Python None
None == "None"

\* values of the body's next_max_id: absent (None), empty, or a cursor token
CursorValues == { None, "", "QVFDa", "QVFDb" }

\* a parsed JSON body as scrape_single_cycle reads it.  A field that the code
\* does not read on the body's path (has_more and next_max_id of a body that
\* is not 'ok', next_max_id of a last page) takes one value only.
FailBodies ==
    [ status : {"fail"}, users : UserLists, has_more : {FALSE},
      next_max_id : {None} ]
LastBodies ==
    [ status : {"ok"}, users : UserLists, has_more : {FALSE},
      next_max_id : {None} ]
MoreBodies ==
    [ status : {"ok"}, users : UserLists, has_more : {TRUE},
      next_max_id : CursorValues ]
Bodies == FailBodies \cup LastBodies \cup MoreBodies

\* sys.argv[2] candidates: "0", "1", "2", a count above what the account has,
\* "-1", "x" and ""
Digits == 48..57
TargetArgs ==
    { <<48 + n>> : n \in {0, 1, 2, MaxUsers + 1} }
        \cup { <<45, 49>>, <<120>>, <<>> }

(* --------------------------- pure functions --------------------------- *)
RECURSIVE DigitsValue(_)
DigitsValue(s) ==
    IF s = <<>> THEN 0
    ELSE 10 * DigitsValue(SubSeq(s, 1, Len(s) - 1)) + (s[Len(s)] - 48)

\* int(sys.argv[2]) on sign-and-digit strings; anything else is a ValueError
ParseInt(s) ==
    LET neg  == Len(s) > 0 /\ s[1] = 45
        body == IF neg THEN Tail(s) ELSE s
    IN  IF body # <<>> /\ \A i \in 1..Len(body) : body[i] \in Digits
        THEN [ok |-> TRUE, value |-> IF neg THEN 0 - DigitsValue(body)
                                            ELSE DigitsValue(body)]
        ELSE [ok |-> FALSE, value |-> 0]

\* str < str of Python: code point by code point, a proper prefix is smaller
LexLess(a, b) ==
    \/ /\ Len(a) < Len(b)
       /\ \A i \in 1..Len(a) : a[i] = b[i]
    \/ \E i \in 1..(IF Len(a) < Len(b) THEN Len(a) ELSE Len(b)) :
          /\ a[i] < b[i]
          /\ \A j \in 1..(i - 1) : a[j] = b[j]

\* sorted(list(s))
RECURSIVE SortedList(_)
SortedList(s) ==
    IF s = {} THEN <<>>
    ELSE LET m == CHOOSE x \in s : \A y \in s \ {x} : LexLess(x, y)
         IN  <<m>> \o SortedList(s \ {m})

\* '\n'.join(lst)
RECURSIVE JoinLines(_)
JoinLines(lst) ==
    IF lst = <<>> THEN <<>>
    ELSE IF Len(lst) = 1 THEN lst[1]
    ELSE lst[1] \o <<10>> \o JoinLines(Tail(lst))

\* a bug: the cycle set is overwritten by the page instead of updated
SetUpdate_Overwrite(s, lst) == { lst[i] : i \in 1..Len(lst) }

\* set.update(list): every element of the list is added, one after another
RECURSIVE SetUpdate(_, _)
SetUpdate(s, lst) ==
    IF lst = <<>> THEN s ELSE SetUpdate(s \cup {lst[1]}, Tail(lst))

\* the elements of a list, as a set
Elems(lst) == { lst[i] : i \in 1..Len(lst) }

\* the first n code points of a content
Prefix(s, n) == SubSeq(s, 1, n)

(* ------------------------------- state -------------------------------- *)
VARIABLES
    pc,                       \* position of the single thread of main()
    argv,                     \* the command line, fixed for the run
    target_count,             \* main: target_count
    master_unique_followers,  \* main: the Master Set
    cycle_number,             \* main: cycle_number
    current_cycle_set,        \* main: what the last cycle returned
    old_size,                 \* main: old_size
    new_users_found,          \* main: new_users_found
    final_list,               \* main: final_list
    cycle_followers,          \* scrape_single_cycle: the Cycle Set
    next_max_id,              \* scrape_single_cycle: the cursor
    pages_fetched,            \* scrape_single_cycle: pages_fetched
    sleeping,                 \* seconds of the time.sleep in progress, else 0
    file,                     \* the output file: [exists, content]
    exit_code,                \* the process exit status once pc = "exit"
    exit_reason,              \* which message ended the run
    served,                   \* history: usernames of the ok pages of this cycle
    rejected,                 \* history: usernames of the failed page of this cycle
    fetches,                  \* history: requests issued in this cycle
    failed_at,                \* history: which request of this cycle failed, else 0
    dup_seen,                 \* history: an ok page repeated a username of this cycle
    last_answer,              \* history: the answer to the last request of this cycle
    empty_cycles,             \* history: consecutive empty cycles, nothing collected yet
    last_good                 \* history: content of the last write that succeeded

\* diff.py, a separate process that reads two snapshot files
VARIABLES
    dpc,                      \* position of the single thread of diff.py's main()
    dargv,                    \* its command line: [argc, file_old, file_new]
    snapshots,                \* the snapshot files on disk, by name
    followers_old,            \* main: followers_old
    followers_new,            \* main: followers_new
    lost_followers,           \* main: lost_followers
    new_followers,            \* main: new_followers
    old_count,                \* main: old_count
    new_count,                \* main: new_count
    net_change,               \* main: net_change
    difference,               \* the report file difference.txt, None until written
    diff_exit,                \* the exit status of diff.py once dpc = "exit"
    prior                     \* history: what the previous run of diff.py computed

diffVars ==
    << dpc, dargv, snapshots, followers_old, followers_new, lost_followers,
       new_followers, old_count, new_count, net_change, difference, diff_exit,
       prior >>

vars ==
    << pc, argv, target_count, master_unique_followers, cycle_number,
       current_cycle_set, old_size, new_users_found, final_list,
       cycle_followers, next_max_id, pages_fetched, sleeping, file, exit_code,
       exit_reason, served, rejected, fetches, failed_at, dup_seen,
       last_answer, empty_cycles, last_good, diffVars >>

mainVars == << target_count, master_unique_followers, cycle_number,
               current_cycle_set, old_size, new_users_found, final_list,
               empty_cycles >>
cycleVars == << cycle_followers, next_max_id, pages_fetched, served, rejected,
                fetches, failed_at, dup_seen, last_answer >>
fileVars == << file, last_good >>

Absent == [exists |-> FALSE, content |-> <<>>]

\* the names diff.py is given for its two input files
SnapshotNames == { "f1", "f2" }

\* what load_usernames returns: None, or a set of usernames
NoUsernames == [none |-> TRUE, names |-> {}]
LoadedUsernames(names) == [none |-> FALSE, names |-> names]

\* what a run leaves for the comparison with the next one
NoPrior == [has |-> FALSE, lost |-> {}, gained |-> {}, net |-> 0,
            old |-> {}, new |-> {}]

\* difference.txt: the figures and the two sorted lists of the report
NoReport == [written |-> FALSE, lost_count |-> 0, new_count |-> 0,
             net_change |-> 0, total |-> 0, lost |-> <<>>, gained |-> <<>>]

\* diff.py has not been started: no snapshot is on disk, nothing is computed
DiffNotRunning ==
    /\ dpc = "idle"
    /\ dargv = [argc |-> 3, file_old |-> "f1", file_new |-> "f2"]
    /\ snapshots = [n \in SnapshotNames |-> Absent]
    /\ followers_old = NoUsernames
    /\ followers_new = NoUsernames
    /\ lost_followers = {}
    /\ new_followers = {}
    /\ old_count = 0
    /\ new_count = 0
    /\ net_change = 0
    /\ difference = NoReport
    /\ diff_exit = -1
    /\ prior = NoPrior
Holding(c) == [exists |-> TRUE, content |-> c]
NeverWritten == [has |-> FALSE, content |-> <<>>]
\* no request of this cycle was answered with an 'ok' page
NoAnswer == [ok |-> FALSE, has_more |-> FALSE, next_max_id |-> None]

Init ==
    /\ pc = "start"
    /\ argv \in [ argc : {2, 3}, target : TargetArgs, config_ok : BOOLEAN ]
    /\ target_count = 0
    /\ master_unique_followers = {}
    /\ cycle_number = 0
    /\ current_cycle_set = {}
    /\ old_size = 0
    /\ new_users_found = 0
    /\ final_list = <<>>
    /\ cycle_followers = {}
    /\ next_max_id = None
    /\ pages_fetched = 0
    /\ sleeping = 0
    /\ file = Absent
    /\ exit_code = -1
    /\ exit_reason = "running"
    /\ served = {}
    /\ rejected = {}
    /\ fetches = 0
    /\ failed_at = 0
    /\ dup_seen = FALSE
    /\ last_answer = NoAnswer
    /\ empty_cycles = 0
    /\ last_good = NeverWritten
    /\ DiffNotRunning

Exit(code, reason) ==
    /\ pc' = "exit"
    /\ exit_code' = code
    /\ exit_reason' = reason

Running == UNCHANGED << exit_code, exit_reason >>

(* -------------------------- main: start-up ---------------------------- *)
\* a bug: only a negative target is rejected
TargetRejected_NegativeOnly(t) == ~t.ok \/ t.value < 0

\* except ValueError, or target_count <= 0: the run ends with an error
TargetRejected(t) == ~t.ok \/ t.value <= 0

\* len(sys.argv) != 3
Main_Usage ==
    /\ pc = "start"
    /\ argv.argc # 3
    /\ Exit(1, "usage")
    /\ UNCHANGED << diffVars, argv, mainVars, cycleVars, sleeping, fileVars >>

\* int(sys.argv[2]) raises, or target_count <= 0
Main_BadTarget ==
    /\ pc = "start"
    /\ argv.argc = 3
    /\ TargetRejected(ParseInt(argv.target))
    /\ Exit(1, "bad_target")
    /\ UNCHANGED << diffVars, argv, mainVars, cycleVars, sleeping, fileVars >>

\* load_request_data exits on a missing, empty or malformed request file
Main_ConfigError ==
    /\ pc = "start"
    /\ argv.argc = 3
    /\ ~TargetRejected(ParseInt(argv.target))
    /\ ~argv.config_ok
    /\ Exit(1, "config")
    /\ UNCHANGED << diffVars, argv, mainVars, cycleVars, sleeping, fileVars >>

Main_Init ==
    /\ pc = "start"
    /\ argv.argc = 3
    /\ ~TargetRejected(ParseInt(argv.target))
    /\ target_count' = ParseInt(argv.target).value
    /\ argv.config_ok
    /\ master_unique_followers' = {}
    /\ cycle_number' = 0
    /\ empty_cycles' = 0
    /\ pc' = "loop"
    /\ Running
    /\ UNCHANGED << diffVars, argv, current_cycle_set, old_size,
                    new_users_found, final_list, cycleVars, sleeping,
                    fileVars >>

(* ------------------------ main: the while test ------------------------ *)
\* a bug: a hard cap on the number of cycles
LoopCondition_Capped(m, t) == Cardinality(m) < t /\ cycle_number < 3

\* while len(master_unique_followers) < target_count
LoopCondition(m, t) == Cardinality(m) < t

\* the locals scrape_single_cycle starts with
CycleLocals == [cycle_followers |-> {}, next_max_id |-> None]

Main_LoopTest ==
    /\ pc = "loop"
    /\ IF LoopCondition(master_unique_followers, target_count)
       THEN /\ cycle_number < MaxCycles
            /\ cycle_number' = cycle_number + 1
            /\ cycle_followers' = CycleLocals.cycle_followers
            /\ next_max_id' = CycleLocals.next_max_id
            /\ pages_fetched' = 0
            /\ pc' = "fetch"
            /\ UNCHANGED final_list
       ELSE /\ final_list' = SortedList(master_unique_followers)
            /\ pc' = "final_open"
            /\ UNCHANGED << cycle_number, cycle_followers, next_max_id,
                            pages_fetched >>
    \* current_cycle_set, old_size and new_users_found are dead here: the
    \* iteration assigns each before it reads it, so their values are dropped
    /\ current_cycle_set' = {}
    /\ old_size' = 0
    /\ new_users_found' = 0
    /\ Running
    /\ UNCHANGED << diffVars, argv, target_count, master_unique_followers,
                    served, rejected, fetches, failed_at, dup_seen,
                    last_answer, empty_cycles, sleeping, fileVars >>

(* ------------------ scrape_single_cycle: one page --------------------- *)
\* the max_id parameter of the request URL: f'...&max_id={max_id or ''}...'
MaxIdParam(x) == IF x = None THEN "" ELSE x

\* a bug: the cursor is not advanced, the cycle asks for the same page again
NextCursor_Stale(body) == next_max_id

\* next_max_id = data.get('next_max_id')
NextCursor(body) == body.next_max_id

\* a bug: a body is taken as a page whatever its status
StatusOk_Any(body) == TRUE

\* data.get('status') == 'ok'
StatusOk(body) == body.status = "ok"

\* not data.get('has_more')
LastPage(body) == ~body.has_more

\* [user['username'] for user in users]
PageUsernames(body) == body.users

\* a bug: a failed page throws away what the cycle gathered
FailedCycleResult_Empty(c) == {}

\* break, then return cycle_followers: the partial set is the result
FailedCycleResult(c) == c

\* what the request and its answer add to the history of the cycle
ObserveRequest ==
    /\ fetches' = fetches + 1

ObserveFailure(users) ==
    /\ ObserveRequest
    /\ failed_at' = IF failed_at = 0 THEN fetches + 1 ELSE failed_at
    /\ rejected' = Elems(users)
    /\ last_answer' = NoAnswer
    /\ UNCHANGED << served, dup_seen >>

ObservePage(users) ==
    /\ ObserveRequest
    /\ served' = served \cup Elems(users)
    /\ dup_seen' = \/ dup_seen
                   \/ Elems(users) \cap served # {}
                   \/ Cardinality(Elems(users)) < Len(users)
    /\ UNCHANGED << rejected, failed_at >>

Observe(body) ==
    IF body.status = "ok"
    THEN /\ ObservePage(body.users)
         /\ last_answer' = [ok |-> TRUE, has_more |-> body.has_more,
                            next_max_id |-> body.next_max_id]
    ELSE ObserveFailure(body.users)

\* the merge is done: the history of the cycle's requests is closed
CloseCycleHistory ==
    /\ rejected' = {}
    /\ fetches' = 0
    /\ failed_at' = 0
    /\ dup_seen' = FALSE
    /\ served' = {}
    /\ last_answer' = NoAnswer
    /\ UNCHANGED << cycle_followers, next_max_id, pages_fetched >>

\* return cycle_followers, received by main as current_cycle_set; the frame of
\* scrape_single_cycle is gone, its locals are what the next call starts with
ReturnCycle(result) ==
    /\ current_cycle_set' = result
    /\ cycle_followers' = {}
    /\ next_max_id' = None
    /\ pages_fetched' = 0
    /\ empty_cycles' = IF result = {} /\ master_unique_followers = {}
                       THEN empty_cycles + 1 ELSE 0
    /\ pc' = "returned"

\* fetch_followers returned None: HTTP error, request error or a non-JSON body
Fetch_None ==
    /\ pc = "fetch"
    /\ ObserveFailure(<<>>)
    /\ ReturnCycle(FailedCycleResult(cycle_followers))
    /\ Running
    /\ UNCHANGED << diffVars, argv, target_count, master_unique_followers, cycle_number,
                    old_size, new_users_found, final_list, sleeping, fileVars >>

\* a JSON body whose status is not 'ok'
Fetch_NotOk ==
    /\ pc = "fetch"
    /\ \E body \in Bodies :
          /\ ~StatusOk(body)
          /\ Observe(body)
    /\ ReturnCycle(FailedCycleResult(cycle_followers))
    /\ Running
    /\ UNCHANGED << diffVars, argv, target_count, master_unique_followers, cycle_number,
                    old_size, new_users_found, final_list, sleeping, fileVars >>

\* an 'ok' page that ends the pagination
Fetch_OkLast ==
    /\ pc = "fetch"
    /\ \E body \in Bodies :
          /\ StatusOk(body)
          /\ LastPage(body)
          /\ Observe(body)
          /\ ReturnCycle(SetUpdate(cycle_followers, PageUsernames(body)))
    /\ Running
    /\ UNCHANGED << diffVars, argv, target_count, master_unique_followers, cycle_number,
                    old_size, new_users_found, final_list, sleeping, fileVars >>

\* an 'ok' page with more to come: the cursor advances and the cycle sleeps
Fetch_OkMore ==
    /\ pc = "fetch"
    /\ pages_fetched + 1 < MaxPages
    /\ \E body \in Bodies :
          /\ StatusOk(body)
          /\ ~LastPage(body)
          /\ Observe(body)
          /\ cycle_followers' = SetUpdate(cycle_followers, PageUsernames(body))
          /\ next_max_id' = NextCursor(body)
    /\ pages_fetched' = pages_fetched + 1
    /\ pc' = "page_pace"
    /\ Running
    /\ UNCHANGED << diffVars, argv, mainVars, sleeping, fileVars >>

\* a bug: the pause can be as short as nothing
PageSleepRange_FromZero == 0..PageSleepMax

\* random.randint(4, 12): both ends included
PageSleepRange == PageSleepMin..PageSleepMax

\* sleep_time = random.randint(4, 12)
PagePace ==
    /\ pc = "page_pace"
    /\ \E t \in PageSleepRange : sleeping' = t
    /\ pc' = "page_sleep"
    /\ Running
    /\ UNCHANGED << diffVars, argv, mainVars, cycleVars, fileVars >>

\* time.sleep(sleep_time) between two pages
PageSleep ==
    /\ pc = "page_sleep"
    /\ sleeping' = 0
    /\ pc' = "fetch"
    /\ Running
    /\ UNCHANGED << diffVars, argv, mainVars, cycleVars, fileVars >>

(* --------------------- main: after a cycle returns -------------------- *)
\* a bug: the abort does not ask whether anything was ever collected
AbortCondition_AnyMaster(n, m) == n > EmptyCycleThreshold

\* a bug: the abort fires as soon as the threshold is met
AbortCondition_AtThreshold(n, m) ==
    n >= EmptyCycleThreshold /\ Cardinality(m) = 0

\* a bug: the abort fires on any empty cycle
AbortCondition_FirstEmpty(n, m) == Cardinality(m) = 0

\* cycle_number > 5 and len(master_unique_followers) == 0
AbortCondition(n, m) == n > EmptyCycleThreshold /\ Cardinality(m) = 0

\* a bug: the master set is replaced by the cycle's set
MasterUpdate_Replace(m, c) == c

\* master_unique_followers.update(current_cycle_set)
MasterUpdate(m, c) == m \cup c

\* a bug: the target has to be exceeded
TargetReached_Exceeded(m, t) == Cardinality(m) > t

\* len(master_unique_followers) >= target_count
TargetReached(m, t) == Cardinality(m) >= t

\* if not current_cycle_set: ... sys.exit(1)
Main_Abort ==
    /\ pc = "returned"
    /\ current_cycle_set = {}
    /\ AbortCondition(cycle_number, master_unique_followers)
    /\ Exit(1, "sustained_failure")
    /\ UNCHANGED << diffVars, argv, mainVars, cycleVars, sleeping, fileVars >>

\* the merge, the completion test and, if not complete, final_list of step 6
Main_Merge ==
    /\ pc = "returned"
    /\ ~(current_cycle_set = {}
         /\ AbortCondition(cycle_number, master_unique_followers))
    /\ old_size' = Cardinality(master_unique_followers)
    /\ master_unique_followers' =
          MasterUpdate(master_unique_followers, current_cycle_set)
    /\ new_users_found' = Cardinality(master_unique_followers') - old_size'
    /\ final_list' = SortedList(master_unique_followers')
    /\ pc' = IF TargetReached(master_unique_followers', target_count)
             THEN "final_open" ELSE "ckpt_open"
    /\ Running
    /\ UNCHANGED << diffVars, argv, target_count, cycle_number,
                    current_cycle_set, empty_cycles, cycleVars, sleeping,
                    fileVars >>

(* ------------------------- the output file ---------------------------- *)
\* a bug: the checkpoint lists the cycle's set, not the master set
WriteContent_Cycle(lst) == JoinLines(SortedList(current_cycle_set))

\* f.write('\n'.join(final_list))
WriteContent(lst) == JoinLines(lst)

\* open(output_filename, 'w') raised: the file is as it was
OpenFails == UNCHANGED << file, last_good >>

\* open(output_filename, 'w') succeeded: the file exists and is empty
OpenSucceeds ==
    /\ file' = Holding(<<>>)
    /\ UNCHANGED last_good

\* the write or the close raised: some prefix of the content reached the file
WriteFails(content) ==
    /\ \E n \in 0..Len(content) : file' = Holding(Prefix(content, n))
    /\ UNCHANGED last_good

\* the with-block completed
WriteSucceeds(content) ==
    /\ file' = Holding(content)
    /\ last_good' = [has |-> TRUE, content |-> content]

\* a bug: a write error in the loop ends the run
AfterFailedCheckpoint_Fatal == Exit(1, "write_error")

\* except Exception: the error is printed and the loop body goes on
AfterFailedCheckpoint ==
    /\ pc' = "cycle_pace"
    /\ Running

Ckpt_OpenFail ==
    /\ pc = "ckpt_open"
    /\ OpenFails
    /\ AfterFailedCheckpoint
    /\ CloseCycleHistory
    /\ UNCHANGED << diffVars, argv, mainVars, sleeping >>

Ckpt_OpenOk ==
    /\ pc = "ckpt_open"
    /\ OpenSucceeds
    /\ pc' = "ckpt_write"
    /\ CloseCycleHistory
    /\ Running
    /\ UNCHANGED << diffVars, argv, mainVars, sleeping >>

Ckpt_WriteFail ==
    /\ pc = "ckpt_write"
    /\ WriteFails(WriteContent(final_list))
    /\ AfterFailedCheckpoint
    /\ UNCHANGED << diffVars, argv, mainVars, cycleVars, sleeping >>

Ckpt_WriteOk ==
    /\ pc = "ckpt_write"
    /\ WriteSucceeds(WriteContent(final_list))
    /\ pc' = "cycle_pace"
    /\ Running
    /\ UNCHANGED << diffVars, argv, mainVars, cycleVars, sleeping >>

\* a bug: the pause between cycles is drawn from the range between pages
CycleSleepRange_AsPages == PageSleepRange

\* random.randint(30, 60): both ends included
CycleSleepRange == CycleSleepMin..CycleSleepMax

\* cycle_sleep_time = random.randint(30, 60)
CyclePace ==
    /\ pc = "cycle_pace"
    /\ \E t \in CycleSleepRange : sleeping' = t
    /\ pc' = "cycle_sleep"
    /\ Running
    /\ UNCHANGED << diffVars, argv, mainVars, cycleVars, fileVars >>

\* time.sleep(cycle_sleep_time) between two cycles
CycleSleep ==
    /\ pc = "cycle_sleep"
    /\ sleeping' = 0
    /\ pc' = "loop"
    /\ Running
    /\ UNCHANGED << diffVars, argv, mainVars, cycleVars, fileVars >>

(* ------------------------- main: final output ------------------------- *)
Final_OpenFail ==
    /\ pc = "final_open"
    /\ OpenFails
    /\ Exit(0, "target_reached")
    /\ UNCHANGED << diffVars, argv, mainVars, cycleVars, sleeping >>

Final_OpenOk ==
    /\ pc = "final_open"
    /\ OpenSucceeds
    /\ pc' = "final_write"
    /\ Running
    /\ UNCHANGED << diffVars, argv, mainVars, cycleVars, sleeping >>

Final_WriteFail ==
    /\ pc = "final_write"
    /\ WriteFails(WriteContent(final_list))
    /\ Exit(0, "target_reached")
    /\ UNCHANGED << diffVars, argv, mainVars, cycleVars, sleeping >>

Final_WriteOk ==
    /\ pc = "final_write"
    /\ WriteSucceeds(WriteContent(final_list))
    /\ Exit(0, "target_reached")
    /\ UNCHANGED << diffVars, argv, mainVars, cycleVars, sleeping >>

(* ------------------------ diff.py: load_usernames --------------------- *)
\* the code points str.strip() removes, up to U+00A0
Whitespace == { 9, 10, 11, 12, 13, 28, 29, 30, 31, 32, 133, 160 }

\* position of the first line terminator of a text, 0 if there is none
RECURSIVE FirstBreak(_, _)
FirstBreak(s, i) ==
    IF i > Len(s) THEN 0
    ELSE IF s[i] \in {10, 13} THEN i
    ELSE FirstBreak(s, i + 1)

\* for line in f: the lines of a file opened in text mode, where '\n', '\r'
\* and '\r\n' each end a line and are read as '\n'; a last line may lack it
RECURSIVE FileLines(_)
FileLines(s) ==
    IF s = <<>> THEN <<>>
    ELSE LET i == FirstBreak(s, 1)
             j == IF i # 0 /\ s[i] = 13 /\ i < Len(s) /\ s[i + 1] = 10
                  THEN i + 1 ELSE i
         IN  IF i = 0 THEN << s >>
             ELSE << SubSeq(s, 1, i - 1) \o << 10 >> >>
                      \o FileLines(SubSeq(s, j + 1, Len(s)))

RECURSIVE LStrip(_)
LStrip(s) ==
    IF s # <<>> /\ s[1] \in Whitespace THEN LStrip(Tail(s)) ELSE s

RECURSIVE RStrip(_)
RStrip(s) ==
    IF s # <<>> /\ s[Len(s)] \in Whitespace
    THEN RStrip(SubSeq(s, 1, Len(s) - 1)) ELSE s

\* a bug: the lines are taken as read, line terminator included
Strip_Missing(s) == s

\* line.strip()
Strip(s) == RStrip(LStrip(s))

\* {line.strip() for line in f if line.strip()}, None if the file is missing
load_usernames(f) ==
    IF ~f.exists THEN NoUsernames
    ELSE LET lines == FileLines(f.content)
         IN  LoadedUsernames({ Strip(lines[i]) :
                                 i \in { k \in 1..Len(lines) :
                                           Strip(lines[k]) # <<>> } })

(* ---------------------------- diff.py: main --------------------------- *)
\* the lines a snapshot file given to diff.py may hold: usernames and blanks
SnapshotLines == { UserName(i) : i \in 1..MaxUsers + 1 } \cup { <<>> }

\* the texts of the snapshot files: any order, repeated and blank lines
SnapshotTexts ==
    { JoinLines(l) : l \in UNION { [1..n -> SnapshotLines] : n \in 0..MaxUsers } }

SnapshotFiles == { Absent } \cup { Holding(t) : t \in SnapshotTexts }

\* a bug: the symmetric difference is taken
SetDifference_Symmetric(a, b) == (a \ b) \cup (b \ a)

\* followers_old - followers_new, followers_new - followers_old
SetDifference(a, b) == a \ b

Report ==
    [written |-> TRUE, lost_count |-> Cardinality(lost_followers),
     new_count |-> Cardinality(new_followers), net_change |-> net_change,
     total |-> new_count, lost |-> SortedList(lost_followers),
     gained |-> SortedList(new_followers)]

DiffExit(code) ==
    /\ dpc' = "exit"
    /\ diff_exit' = code

collectorVars ==
    << pc, argv, target_count, master_unique_followers, cycle_number,
       current_cycle_set, old_size, new_users_found, final_list,
       cycle_followers, next_max_id, pages_fetched, sleeping, file, exit_code,
       exit_reason, served, rejected, fetches, failed_at, dup_seen,
       last_answer, empty_cycles, last_good >>

diffLocals == << followers_old, followers_new, lost_followers, new_followers,
                 old_count, new_count, net_change >>

\* len(sys.argv) != 3
Diff_Usage ==
    /\ dpc = "start"
    /\ dargv.argc # 3
    /\ DiffExit(1)
    /\ UNCHANGED << collectorVars, dargv, snapshots, diffLocals, difference,
                    prior >>

\* both files are loaded, then either failure ends the run
Diff_Load ==
    /\ dpc = "start"
    /\ dargv.argc = 3
    /\ followers_old' = load_usernames(snapshots[dargv.file_old])
    /\ followers_new' = load_usernames(snapshots[dargv.file_new])
    /\ IF followers_old'.none \/ followers_new'.none
       THEN DiffExit(1)
       ELSE dpc' = "compute" /\ UNCHANGED diff_exit
    /\ UNCHANGED << collectorVars, dargv, snapshots, lost_followers,
                    new_followers, old_count, new_count, net_change,
                    difference, prior >>

\* step 3: the set arithmetic
Diff_Compute ==
    /\ dpc = "compute"
    /\ lost_followers' = SetDifference(followers_old.names, followers_new.names)
    /\ new_followers' = SetDifference(followers_new.names, followers_old.names)
    /\ old_count' = Cardinality(followers_old.names)
    /\ new_count' = Cardinality(followers_new.names)
    /\ net_change' = new_count' - old_count'
    /\ dpc' = "report"
    /\ UNCHANGED << collectorVars, dargv, snapshots, followers_old,
                    followers_new, difference, diff_exit, prior >>

\* steps 4 and 5: the report is written to difference.txt
Diff_ReportOk ==
    /\ dpc = "report"
    /\ difference' = Report
    /\ DiffExit(0)
    /\ UNCHANGED << collectorVars, dargv, snapshots, diffLocals, prior >>

\* except IOError: the error is printed, the run ends all the same
Diff_ReportFail ==
    /\ dpc = "report"
    /\ DiffExit(0)
    /\ UNCHANGED << collectorVars, dargv, snapshots, diffLocals, difference,
                    prior >>

\* diff.py is run once more on the same two files, named the other way round
Diff_Rerun ==
    /\ dpc = "exit"
    /\ diff_exit = 0
    /\ ~prior.has
    /\ prior' = [has |-> TRUE, lost |-> lost_followers,
                 gained |-> new_followers, net |-> net_change,
                 old |-> followers_old.names, new |-> followers_new.names]
    /\ dargv' = [dargv EXCEPT !.file_old = dargv.file_new,
                              !.file_new = dargv.file_old]
    /\ followers_old' = NoUsernames
    /\ followers_new' = NoUsernames
    /\ lost_followers' = {}
    /\ new_followers' = {}
    /\ old_count' = 0
    /\ new_count' = 0
    /\ net_change' = 0
    /\ difference' = NoReport
    /\ diff_exit' = -1
    /\ dpc' = "start"
    /\ UNCHANGED << collectorVars, snapshots >>

\* the collector is not running while diff.py works on two given files
CollectorNotRunning ==
    /\ pc = "idle"
    /\ argv = [argc |-> 3, target |-> << 49 >>, config_ok |-> TRUE]
    /\ target_count = 0
    /\ master_unique_followers = {}
    /\ cycle_number = 0
    /\ current_cycle_set = {}
    /\ old_size = 0
    /\ new_users_found = 0
    /\ final_list = <<>>
    /\ cycle_followers = {}
    /\ next_max_id = None
    /\ pages_fetched = 0
    /\ sleeping = 0
    /\ file = Absent
    /\ exit_code = -1
    /\ exit_reason = "running"
    /\ served = {}
    /\ rejected = {}
    /\ fetches = 0
    /\ failed_at = 0
    /\ dup_seen = FALSE
    /\ last_answer = NoAnswer
    /\ empty_cycles = 0
    /\ last_good = NeverWritten

InitDiff ==
    /\ CollectorNotRunning
    /\ dpc = "start"
    /\ dargv \in [argc : {2, 3}, file_old : {"f1"}, file_new : {"f2"}]
    /\ snapshots \in [SnapshotNames -> SnapshotFiles]
    /\ followers_old = NoUsernames
    /\ followers_new = NoUsernames
    /\ lost_followers = {}
    /\ new_followers = {}
    /\ old_count = 0
    /\ new_count = 0
    /\ net_change = 0
    /\ difference = NoReport
    /\ diff_exit = -1
    /\ prior = NoPrior

NextDiff ==
    \/ Diff_Usage
    \/ Diff_Load
    \/ Diff_Compute
    \/ Diff_ReportOk
    \/ Diff_ReportFail
    \/ Diff_Rerun

(* --------------- the collector's file as diff.py's input -------------- *)
\* code points of the usernames of the round trip: newline, space and 'a'
NameChars == { 10, 32, 97 }

\* every string the API could give as a username, the empty one included
AnyNames == UNION { [1..n -> NameChars] : n \in 0..MaxNameLen }

AnyLists == UNION { [1..n -> AnyNames] : n \in 0..MaxPageLen }

\* an 'ok' last page whose usernames are arbitrary strings
Fetch_AnyNames ==
    /\ pc = "fetch"
    /\ \E users \in AnyLists :
          LET body == [status |-> "ok", users |-> users, has_more |-> FALSE,
                       next_max_id |-> None]
          IN  /\ StatusOk(body)
              /\ LastPage(body)
              /\ Observe(body)
              /\ ReturnCycle(SetUpdate(cycle_followers, PageUsernames(body)))
    /\ Running
    /\ UNCHANGED << diffVars, argv, target_count, master_unique_followers,
                    cycle_number, old_size, new_users_found, final_list,
                    sleeping, fileVars >>

\* diff.py is started with the file the collector has just written given as
\* both of its snapshots
RunDiffOnOutput ==
    /\ pc \in {"cycle_pace", "exit"}
    /\ last_good.has
    /\ dpc = "idle"
    /\ snapshots' = [n \in SnapshotNames |-> file]
    /\ dpc' = "start"
    /\ UNCHANGED << collectorVars, dargv, diffLocals, difference, diff_exit,
                    prior >>

\* the first cycle of a run is about to request its first page
InitRoundTrip ==
    /\ pc = "fetch"
    /\ \E t \in 1..MaxUsers :
          /\ argv = [argc |-> 3, target |-> << 48 + t >>, config_ok |-> TRUE]
          /\ target_count = t
    /\ master_unique_followers = {}
    /\ cycle_number = 1
    /\ current_cycle_set = {}
    /\ old_size = 0
    /\ new_users_found = 0
    /\ final_list = <<>>
    /\ cycle_followers = {}
    /\ next_max_id = None
    /\ pages_fetched = 0
    /\ sleeping = 0
    /\ file = Absent
    /\ exit_code = -1
    /\ exit_reason = "running"
    /\ served = {}
    /\ rejected = {}
    /\ fetches = 0
    /\ failed_at = 0
    /\ dup_seen = FALSE
    /\ last_answer = NoAnswer
    /\ empty_cycles = 0
    /\ last_good = NeverWritten
    /\ DiffNotRunning

NextRoundTrip ==
    \/ Fetch_AnyNames
    \/ Main_Merge
    \/ Ckpt_OpenOk
    \/ Ckpt_WriteOk
    \/ Final_OpenOk
    \/ Final_WriteOk
    \/ RunDiffOnOutput
    \/ Diff_Load

(* --------------------------- specification ---------------------------- *)
\* the steps of a run in which no open and no write of the output file fails
NextWritesOk ==
    \/ Main_Usage
    \/ Main_BadTarget
    \/ Main_ConfigError
    \/ Main_Init
    \/ Main_LoopTest
    \/ Fetch_None
    \/ Fetch_NotOk
    \/ Fetch_OkLast
    \/ Fetch_OkMore
    \/ PagePace
    \/ PageSleep
    \/ Main_Abort
    \/ Main_Merge
    \/ Ckpt_OpenOk
    \/ Ckpt_WriteOk
    \/ CyclePace
    \/ CycleSleep
    \/ Final_OpenOk
    \/ Final_WriteOk

\* every step, the failing opens and writes included
Next ==
    \/ NextWritesOk
    \/ Ckpt_OpenFail
    \/ Ckpt_WriteFail
    \/ Final_OpenFail
    \/ Final_WriteFail

Spec == Init /\ [][Next]_vars

SpecWritesOk == Init /\ [][NextWritesOk]_vars

\* diff.py on two given snapshot files, run a second time the other way round
SpecDiff == InitDiff /\ [][NextDiff]_vars

\* one cycle of arbitrary usernames, the write of the file, its load by diff.py
SpecRoundTrip == InitRoundTrip /\ [][NextRoundTrip]_vars

(* ------------------------------ claims -------------------------------- *)
\* the snapshot listing of a set: sorted, one identifier per line
Listing(m) == JoinLines(SortedList(m))

\* C1: a cycle whose pages were all 'ok', the last one with has_more false,
\* returns exactly the union of the usernames of the pages served, whatever
\* was repeated within a page or from one page to the next.
C1_CycleSetIsUnionOfPages ==
    (pc = "returned" /\ failed_at = 0) => current_cycle_set = served

\* a completed cycle of more than one page in which a username was repeated
C1_Witness ==
    /\ pc = "returned"
    /\ failed_at = 0
    /\ fetches >= 2
    /\ dup_seen
    /\ Cardinality(current_cycle_set) >= 2

\* C2: when the k-th request of a cycle fails (no body, or a body whose status
\* is not 'ok') the cycle issues no further request and returns exactly the
\* union of pages 1..k-1: nothing of page k, nothing lost.
C2_FailedPageEndsCycleWithPartialSet ==
    failed_at # 0 =>
        /\ pc \in {"returned", "ckpt_open", "final_open", "final_write", "exit"}
        /\ fetches = failed_at
        /\ current_cycle_set = served

\* the second request failed with a body naming somebody the first page did not
C2_Witness ==
    /\ pc = "returned"
    /\ failed_at = 2
    /\ served # {}
    /\ rejected \ served # {}
    /\ current_cycle_set = served

\* C3: every merge sets the Master Set to (old Master Set \cup Cycle Set); no
\* step of a run removes an identifier, the size never decreases, and merging
\* an empty Cycle Set changes nothing.
C3_MergeIsUnion ==
    [][ /\ master_unique_followers \subseteq master_unique_followers'
        /\ Cardinality(master_unique_followers')
              >= Cardinality(master_unique_followers)
        /\ (pc = "returned" /\ pc' # "exit") =>
              /\ master_unique_followers' =
                    master_unique_followers \cup current_cycle_set
              /\ current_cycle_set = {} =>
                    master_unique_followers' = master_unique_followers
      ]_vars

\* a merge has just added new identifiers to a Master Set that had some
C3_Witness ==
    /\ pc = "ckpt_open"
    /\ old_size > 0
    /\ new_users_found > 0
    /\ Cardinality(master_unique_followers) = old_size + new_users_found

\* C4: with writes that succeed, whenever a page is being requested or the
\* process sleeps or draws a pause, the file is absent (first cycle only, the
\* Master Set empty) or lists exactly the Master Set as merged after the last
\* completed cycle; what the cycle in progress has gathered is not in it.
C4_FileIsLastMergedMaster ==
    pc \in {"fetch", "page_pace", "page_sleep", "cycle_pace", "cycle_sleep"} =>
        \/ /\ file = Absent
           /\ master_unique_followers = {}
           /\ cycle_number = 1
        \/ /\ file.exists
           /\ file.content = Listing(master_unique_followers)

\* between two pages, the cycle holds identifiers the file does not list yet
C4_Witness ==
    /\ pc = "page_sleep"
    /\ file.exists
    /\ master_unique_followers # {}
    /\ cycle_followers \ master_unique_followers # {}

\* C5: with writes that succeed, a run that ends by reaching the target or by
\* the sustained-failure abort leaves a file that lists exactly the Master Set
\* held in memory at the exit.
C5_FileIsMasterAtExit ==
    (pc = "exit" /\ exit_reason \in {"target_reached", "sustained_failure"}) =>
        /\ file.exists
        /\ file.content = Listing(master_unique_followers)

\* the abort: no final write, the file is the one of the last checkpoint
C5_Witness ==
    /\ pc = "exit"
    /\ exit_code = 1
    /\ exit_reason = "sustained_failure"
    /\ file.exists

\* C6: when the first five cycles of a run each return an empty Cycle Set, the
\* run aborts with exit code 1 after the fifth: no sixth cycle is started.
C6_NoSixthCycleAfterFiveEmpty ==
    ~( /\ pc = "fetch"
       /\ cycle_number > EmptyCycleThreshold
       /\ master_unique_followers = {} )

\* C7: the loop is left only with |Master Set| >= target_count (towards the
\* final write and exit 0) or by the abort (exit 1), which needs an empty
\* Master Set; a failed write ends nothing; and as long as the target is not
\* met the while test always starts one more cycle.
C7_LoopEndsOnlyTwoWays ==
    [][ /\ pc' = "final_open" =>
              Cardinality(master_unique_followers') >= target_count
        /\ (pc' = "exit" /\ pc # "start") =>
              \/ /\ exit_code' = 0
                 /\ pc \in {"final_open", "final_write"}
                 /\ Cardinality(master_unique_followers') >= target_count
              \/ /\ exit_code' = 1
                 /\ pc = "returned"
                 /\ current_cycle_set = {}
                 /\ master_unique_followers' = {}
        /\ (pc = "loop"
            /\ Cardinality(master_unique_followers) < target_count) =>
              /\ pc' = "fetch"
              /\ cycle_number' = cycle_number + 1
      ]_vars

\* past the threshold an empty cycle was merged into a non-empty Master Set
\* that is still short of the target, and the run goes on
C7_Witness ==
    /\ pc = "ckpt_open"
    /\ cycle_number > EmptyCycleThreshold
    /\ current_cycle_set = {}
    /\ master_unique_followers # {}
    /\ Cardinality(master_unique_followers) < target_count

\* C8: a cycle that a failed page ended with a non-empty partial set does not
\* end the run: the set is merged into the Master Set, and with the target
\* still unmet the run checkpoints, sleeps and starts a cycle whose cursor is
\* None and whose Cycle Set is empty.
C8_FailedPageDoesNotEndRun ==
    [][ /\ (pc = "returned" /\ failed_at # 0 /\ served # {}) =>
              /\ pc' # "exit"
              /\ served \subseteq master_unique_followers'
              /\ Cardinality(master_unique_followers') < target_count =>
                    pc' = "ckpt_open"
        /\ pc = "ckpt_open" => pc' \in {"ckpt_write", "cycle_pace"}
        /\ pc = "ckpt_write" => pc' = "cycle_pace"
        /\ pc = "cycle_pace" => pc' = "cycle_sleep"
        /\ pc = "cycle_sleep" => pc' = "loop"
        /\ (pc = "loop" /\ pc' = "fetch") =>
              /\ next_max_id' = None
              /\ cycle_followers' = {}
              /\ pages_fetched' = 0
              /\ cycle_number' = cycle_number + 1
      ]_vars

\* the partial set of a failed cycle is in the Master Set and the run is on
\* its way to the next cycle
C8_Witness ==
    /\ pc = "ckpt_open"
    /\ failed_at = 2
    /\ served # {}
    /\ old_size > 0
    /\ new_users_found > 0
    /\ served \subseteq master_unique_followers

\* C9: a checkpoint whose open or write fails leaves the Master Set and the
\* cycle counter as they are, the run goes on to the inter-cycle sleep and the
\* next cycle, and every checkpoint attempt writes the listing of the whole
\* current Master Set.
C9_FailedCheckpointIsNotFatal ==
    [][ /\ (Ckpt_OpenFail \/ Ckpt_WriteFail) =>
              /\ master_unique_followers' = master_unique_followers
              /\ cycle_number' = cycle_number
              /\ pc' = "cycle_pace"
        /\ pc = "cycle_pace" =>
              /\ pc' = "cycle_sleep"
              /\ sleeping' \in CycleSleepMin..CycleSleepMax
        /\ pc = "cycle_sleep" => pc' = "loop"
        /\ (pc = "loop"
            /\ Cardinality(master_unique_followers) < target_count) =>
              pc' = "fetch"
        /\ pc' \in {"ckpt_open", "ckpt_write"} =>
              final_list' = SortedList(master_unique_followers')
        /\ Ckpt_WriteOk => file'.content = Listing(master_unique_followers)
      ]_vars

\* no write has succeeded so far, and a later checkpoint is about to write a
\* Master Set none of whose identifiers is on disk
C9_Witness ==
    /\ pc = "ckpt_write"
    /\ cycle_number >= 2
    /\ ~last_good.has
    /\ Cardinality(master_unique_followers) >= 2

\* C10 as stated: at a fatal exit the file is absent or holds exactly the
\* content of the last checkpoint write that succeeded.
C10_FileIsLastSuccessfulWrite ==
    (pc = "exit" /\ exit_code = 1) =>
        \/ ~file.exists
        \/ /\ last_good.has
           /\ file.content = last_good.content

\* C10 as amended: at a fatal exit the file is absent or is exactly the
\* complete listing of the Master Set in memory; it is never a partial
\* listing, though it may exist without any write having succeeded.
C10_FileNeverPartialAtFatalExit ==
    (pc = "exit" /\ exit_code = 1) =>
        \/ ~file.exists
        \/ file.content = Listing(master_unique_followers)

\* the abort after checkpoints that opened the file but never completed a write
C10_Witness ==
    /\ pc = "exit"
    /\ exit_code = 1
    /\ exit_reason = "sustained_failure"
    /\ file.exists
    /\ ~last_good.has

\* C11: whenever diff.py has computed its figures from two loaded sets A
\* (old) and B (new): lost = A \ B, gained = B \ A, A = (A \cap B) \cup lost,
\* B = (A \cap B) \cup gained, net_change = |B| - |A|, A and B are still what
\* the files hold; and a second run on the same files named the other way
\* round finds lost and gained exchanged and the net change negated.
C11_DiffIsAntisymmetricAndComplete ==
    (dpc \in {"report", "exit"} /\ diff_exit # 1) =>
        LET A == followers_old.names
            B == followers_new.names
        IN  /\ ~followers_old.none /\ ~followers_new.none
            /\ followers_old = load_usernames(snapshots[dargv.file_old])
            /\ followers_new = load_usernames(snapshots[dargv.file_new])
            /\ lost_followers = A \ B
            /\ new_followers = B \ A
            /\ A = (A \cap B) \cup lost_followers
            /\ B = (A \cap B) \cup new_followers
            /\ net_change = Cardinality(B) - Cardinality(A)
            /\ prior.has =>
                  /\ A = prior.new /\ B = prior.old
                  /\ lost_followers = prior.gained
                  /\ new_followers = prior.lost
                  /\ net_change = 0 - prior.net

\* the second run is over: both sets share a username, each has one of its own
C11_Witness ==
    /\ dpc = "exit"
    /\ diff_exit = 0
    /\ prior.has
    /\ lost_followers # {}
    /\ new_followers # {}
    /\ followers_old.names \cap followers_new.names # {}
    /\ difference.written

\* a username that a line of the snapshot file can carry: not empty, no line
\* terminator in it, no whitespace at either end
CleanName(u) ==
    /\ u # <<>>
    /\ u[1] \notin Whitespace
    /\ u[Len(u)] \notin Whitespace
    /\ \A i \in 1..Len(u) : u[i] \notin {10, 13}

\* C12 as stated: for every Master Set of strings, the set load_usernames
\* reads from the written file is the Master Set.
C12_RoundTripOfAnyStrings ==
    (dpc = "compute" /\ last_good.has) =>
        followers_new.names = master_unique_followers

\* C12 as amended: for every Master Set of usernames that are not empty, hold
\* no line terminator and neither start nor end with whitespace, the file is
\* the sorted listing of the set, whatever the order of insertion, and
\* load_usernames reads exactly the Master Set from it.
C12_RoundTripOfCleanNames ==
    (/\ dpc = "compute"
     /\ last_good.has
     /\ \A u \in master_unique_followers : CleanName(u)) =>
        /\ file.content = Listing(master_unique_followers)
        /\ followers_new = LoadedUsernames(master_unique_followers)
        /\ followers_old = followers_new

\* two clean usernames went through the file and came back
C12_Witness ==
    /\ dpc = "compute"
    /\ Cardinality(master_unique_followers) >= 2
    /\ \A u \in master_unique_followers : CleanName(u)
    /\ followers_new.names = master_unique_followers
    /\ file.content = Listing(master_unique_followers)

\* C13: a run whose target argument is 0 never requests a page: from its
\* start the one step it can take, and does take, is the exit with code 1,
\* before any cycle is started and without a file being written.
C13_TargetZeroNeverFetches ==
    (argv.argc = 3 /\ ParseInt(argv.target) = [ok |-> TRUE, value |-> 0]) =>
        /\ pc \in {"start", "exit"}
        /\ pc = "start" => ENABLED Main_BadTarget /\ ~ENABLED Main_Init
        /\ pc = "exit" => /\ exit_code = 1
                          /\ exit_reason = "bad_target"
        /\ cycle_number = 0
        /\ fetches = 0
        /\ file = Absent

\* the run with target 0 has ended
C13_Witness ==
    /\ pc = "exit"
    /\ argv.argc = 3
    /\ argv.target = << 48 >>
    /\ exit_reason = "bad_target"

\* C14: when a cycle has returned, the run aborts if and only if the Cycle
\* Set is empty, the Master Set is empty and more than five consecutive
\* cycles have come back empty, which is the case on the sixth such cycle and
\* not before; and whenever an empty cycle has returned to an empty Master
\* Set, cycle_number equals the count of consecutive empty cycles.
C14_AbortExactlyOnSixthEmptyCycle ==
    [][ /\ pc = "returned" =>
              /\ pc' = "exit" <=>
                    /\ current_cycle_set = {}
                    /\ master_unique_followers = {}
                    /\ empty_cycles > EmptyCycleThreshold
              /\ (current_cycle_set = {} /\ master_unique_followers = {}) =>
                    cycle_number = empty_cycles
        /\ (pc = "returned" /\ pc' = "exit") =>
              /\ exit_code' = 1
              /\ exit_reason' = "sustained_failure"
              /\ empty_cycles = EmptyCycleThreshold + 1
      ]_vars

\* the abort, after six cycles that all came back empty
C14_Witness ==
    /\ pc = "exit"
    /\ exit_reason = "sustained_failure"
    /\ empty_cycles = EmptyCycleThreshold + 1
    /\ cycle_number = empty_cycles
    /\ master_unique_followers = {}

\* the steps from the merge that meets the target to the exit: straight to
\* the final write, no request, no sleep, no new cycle
StopsInSameIteration ==
    /\ (pc = "returned"
        /\ Cardinality(master_unique_followers \cup current_cycle_set)
              >= target_count) =>
          /\ pc' = "final_open"
          /\ master_unique_followers' =
                master_unique_followers \cup current_cycle_set
    /\ pc = "final_open" => pc' \in {"final_write", "exit"}
    /\ pc = "final_write" => pc' = "exit"
    /\ pc \in {"returned", "final_open", "final_write"} =>
          /\ sleeping' = 0
          /\ fetches' = fetches
          /\ cycle_number' = cycle_number
    /\ (pc' = "exit" /\ pc \in {"final_open", "final_write"}) =>
          /\ exit_code' = 0
          /\ Cardinality(master_unique_followers') >= target_count

\* the file lists every identifier of a Master Set that meets the target
FinalFileListsTarget ==
    /\ file'.exists
    /\ file'.content = Listing(master_unique_followers')
    /\ Len(final_list') >= target_count
    /\ Cardinality(Elems(final_list')) = Len(final_list')

\* C15 as stated: once a merge makes |Master Set| >= target_count the run
\* goes straight to the final write and the exit, and at that exit the file
\* lists at least target_count distinct identifiers.
C15_StopsAndFileListsTarget ==
    [][ /\ StopsInSameIteration
        /\ (pc' = "exit" /\ exit_code' = 0) => FinalFileListsTarget
      ]_vars

\* C15 as amended: the same, the file listing at least target_count distinct
\* identifiers when the final write has succeeded.
C15_StopsAndWrittenFileListsTarget ==
    [][ /\ StopsInSameIteration
        /\ (pc' = "exit" /\ exit_code' = 0 /\ last_good' # last_good) =>
              FinalFileListsTarget
      ]_vars

\* a later cycle brought the Master Set to the target and the final write
\* succeeded
C15_Witness ==
    /\ pc = "exit"
    /\ exit_code = 0
    /\ cycle_number >= 2
    /\ old_size > 0
    /\ new_users_found > 0
    /\ Cardinality(master_unique_followers) >= target_count
    /\ last_good = [has |-> TRUE, content |-> Listing(master_unique_followers)]
    /\ file = Holding(Listing(master_unique_followers))

\* C16: in a cycle, a request answered by an 'ok' page with has_more is
\* followed by the draw of one pause of 4 to 12 whole seconds, that one sleep,
\* and the next request; a request answered by a last page, by no body or by
\* a body that is not 'ok' ends the cycle with no sleep drawn or taken; and
\* no pause between pages is drawn or slept at any other point.
C16_OneSleepBetweenPages ==
    [][ /\ pc = "fetch" =>
              /\ fetches' = fetches + 1
              /\ sleeping' = 0
              /\ pc' = IF last_answer'.ok /\ last_answer'.has_more
                       THEN "page_pace" ELSE "returned"
        /\ pc = "page_pace" =>
              /\ pc' = "page_sleep"
              /\ sleeping' \in PageSleepMin..PageSleepMax
              /\ fetches' = fetches
        /\ pc = "page_sleep" =>
              /\ pc' = "fetch"
              /\ sleeping \in PageSleepMin..PageSleepMax
              /\ sleeping' = 0
              /\ fetches' = fetches
              /\ cycle_number' = cycle_number
        /\ pc' = "page_pace" => pc = "fetch"
        /\ pc' = "page_sleep" => pc = "page_pace"
        /\ pc' = "fetch" => pc \in {"page_sleep", "loop"}
      ]_vars

\* the longest pause before the second request of a cycle
C16_Witness ==
    /\ pc = "page_sleep"
    /\ sleeping = PageSleepMax
    /\ fetches = 1
    /\ last_answer.ok
    /\ last_answer.has_more

\* C17: after a merge that leaves |Master Set| < target_count the run makes
\* one checkpoint attempt (the open, then the write if the open succeeded),
\* then draws one pause of 30 to 60 whole seconds, then sleeps it, then
\* starts the next cycle; none of these steps happens elsewhere or twice; a
\* write that completes leaves the listing of the merged Master Set, and the
\* file is not touched again before the next cycle has returned.
C17_CheckpointThenSleepThenCycle ==
    [][ /\ (pc = "returned" /\ pc' # "exit"
            /\ Cardinality(master_unique_followers') < target_count) =>
              pc' = "ckpt_open"
        /\ pc = "ckpt_open" => pc' \in {"ckpt_write", "cycle_pace"}
        /\ pc = "ckpt_write" => pc' = "cycle_pace"
        /\ pc = "cycle_pace" =>
              /\ pc' = "cycle_sleep"
              /\ sleeping' \in CycleSleepMin..CycleSleepMax
        /\ pc = "cycle_sleep" =>
              /\ pc' = "loop"
              /\ sleeping \in CycleSleepMin..CycleSleepMax
              /\ sleeping' = 0
        /\ pc = "loop" =>
              /\ Cardinality(master_unique_followers) < target_count
              /\ pc' = "fetch"
              /\ fetches = 0
              /\ cycle_number' = cycle_number + 1
        /\ pc' = "ckpt_open" => pc = "returned"
        /\ pc' = "ckpt_write" => pc = "ckpt_open"
        /\ pc' = "cycle_pace" => pc \in {"ckpt_open", "ckpt_write"}
        /\ pc' = "cycle_sleep" => pc = "cycle_pace"
        /\ pc' = "loop" => pc \in {"cycle_sleep", "start"}
        /\ pc \in {"ckpt_open", "ckpt_write", "cycle_pace", "cycle_sleep"} =>
              /\ fetches' = 0
              /\ master_unique_followers' = master_unique_followers
              /\ cycle_number' = cycle_number
        /\ Ckpt_WriteOk =>
              file' = Holding(Listing(master_unique_followers'))
        /\ pc \in {"cycle_pace", "cycle_sleep", "loop", "fetch", "page_pace",
                   "page_sleep"} => file' = file
      ]_vars

\* the shortest pause between two cycles, the merged Master Set on disk
C17_Witness ==
    /\ pc = "cycle_sleep"
    /\ sleeping = CycleSleepMin
    /\ cycle_number >= 2
    /\ master_unique_followers # {}
    /\ Cardinality(master_unique_followers) < target_count
    /\ file = Holding(Listing(master_unique_followers))

\* the max_id parameter of the request that a state with pc = "fetch" sends
RequestMaxId == MaxIdParam(next_max_id)

C19_EmptyCursorOnlyOnFirstFetch ==
    (pc = "fetch" /\ fetches > 0) => RequestMaxId # ""

=============================================================================
